---- MODULE Spec2Model ----
(***************************************************************************)
(* Model of dynamic_rest/serializers.py: DynamicModelSerializer.           *)
(*                                                                         *)
(* A request value (request_fields, or a directive inside it) is encoded   *)
(* as a set of <<path, kind>> pairs: the pair with the empty path gives    *)
(* the kind of the value itself ("true", "false" or "map"), and the pairs  *)
(* with longer paths are the entries of a map, nested maps included.       *)
(*   True            {<< <<>>, "true" >>}                                  *)
(*   {}              {<< <<>>, "map" >>}                                   *)
(*   {a: {b: False}} {<< <<>>, "map" >>, << <<"a">>, "map" >>,             *)
(*                    << <<"a", "b">>, "false" >>}                         *)
(* The empty set stands for None / no entry.                               *)
(***************************************************************************)
EXTENDS Integers, Sequences, FiniteSets, TLC

\* ------------------------------------------------------------------ bounds
\* Largest number of entries (keys, nested ones included) of a request map.
MaxEntries == 2
\* Largest length of an include_fields / exclude_fields list.
MaxList == 1

\* ------------------------------------------------------------------ schema
\* Two serializer classes: person (with a relation to itself) and post.
Fields(e) ==
  IF e = "person" THEN <<"name", "email", "friend", "posts">>
  ELSE <<"title", "author">>

FieldSet(e) == {Fields(e)[i] : i \in 1..Len(Fields(e))}

Names == FieldSet("person") \cup FieldSet("post")

\* field.deferred == True
FieldDeferred(e, f) == e = "person" /\ f = "email"

\* Meta.deferred_fields
MetaDeferred(e) == IF e = "person" THEN {"posts"} ELSE {}

\* Meta.name
MetaName(e) == e

\* The serializer class behind a relational field ("" for a plain field).
RelTarget(e, f) ==
  IF e = "person" /\ f = "friend" THEN "person"
  ELSE IF e = "person" /\ f = "posts" THEN "post"
  ELSE IF e = "post" /\ f = "author" THEN "person"
  ELSE ""

IsRelation(e, f) == RelTarget(e, f) # ""

\* many=True: the field's serializer is a ListSerializer
IsMany(e, f) == e = "person" /\ f = "posts"

\* ------------------------------------------------------------ request values
Absent == {}
TrueV == {<< <<>>, "true" >>}
FalseV == {<< <<>>, "false" >>}
EmptyMap == {<< <<>>, "map" >>}

Kind(v) == IF v = {} THEN "absent" ELSE (CHOOSE e \in v : e[1] = <<>>)[2]

IsMap(v) == Kind(v) = "map"

\* dict.keys()
Keys(v) == {e[1][1] : e \in {x \in v : Len(x[1]) > 0}}

\* d[k], for k in d
Get(v, k) ==
  {<<Tail(e[1]), e[2]>> : e \in {x \in v : Len(x[1]) > 0 /\ x[1][1] = k}}

\* d.get(k, default)
DictGet(v, k, default) == IF k \in Keys(v) THEN Get(v, k) ELSE default

\* d[k] = w
Put(v, k, w) ==
  {x \in v : Len(x[1]) = 0 \/ x[1][1] # k}
    \cup {<< <<k>> \o e[1], e[2] >> : e \in w}

\* Python truth value: None, False and {} are false.
Truthy(v) == Kind(v) = "true" \/ (IsMap(v) /\ Keys(v) # {})

\* Number of nested levels below the top of a request map (0 when flat).
Depth(v) ==
  LET ms == {e \in v : e[2] = "map"}
  IN  IF ms = {} THEN 0
      ELSE CHOOSE d \in 0..Cardinality(v) :
             /\ \E e \in ms : Len(e[1]) = d
             /\ \A e \in ms : Len(e[1]) <= d

\* The request maps of at most n entries, built one entry at a time.
RECURSIVE Maps(_)
Maps(n) ==
  IF n = 0 THEN {EmptyMap}
  ELSE LET prev == Maps(n - 1)
       IN  prev \cup
           UNION { { m \cup {<< p \o <<k>>, d >>} :
                       p \in {e[1] : e \in {x \in m : x[2] = "map"}},
                       k \in Names,
                       d \in {"true", "false", "map"} }
                   : m \in prev }

WellFormed(v) ==
  /\ Cardinality({e \in v : e[1] = <<>>}) = 1
  /\ \A e \in v : \A f \in v : e[1] = f[1] => e = f
  /\ \A e \in v : Len(e[1]) > 0 =>
        <<SubSeq(e[1], 1, Len(e[1]) - 1), "map">> \in v

ReqSet == {m \in Maps(MaxEntries) : WellFormed(m)}

\* ------------------------------------------------------- __init__ (pure part)
\* The names a list argument assigns, one after the other, the same directive:
\* "for name in names: request_fields[name] = directive".
RECURSIVE SetAll(_, _, _)
SetAll(v, names, directive) ==
  IF names = {} THEN v
  ELSE LET k == CHOOSE k \in names : TRUE
       IN  SetAll(Put(v, k, directive), names \ {k}, directive)

\* Variant of Merge: the include list fills in only the names the map does
\* not hold yet, so that a directive of the map outlives it.
MergeKeepsMap(v, include, exclude) ==
  SetAll(SetAll(v, include \ Keys(v), TrueV), exclude, FalseV)

\* Lines 24-27: the include list is written first, the exclude list second,
\* both over whatever the map already holds.
Merge(v, include, exclude) ==
  SetAll(SetAll(v, include, TrueV), exclude, FalseV)

\* "a or b" on lists and on request values
OrList(a, b) == IF a # {} THEN a ELSE b

\* ----------------------------------------------------- get_fields (pure part)
\* Variant of IdOnly: the truth value of request_fields instead of "== True".
IdOnlyTruthy(req) == Truthy(req)

\* Variant of IdOnly: identifier-only when nothing is requested.
IdOnlyFalsy(req) == ~Truthy(req)

\* id_only: request_fields == True
IdOnly(req) == req = TrueV

\* Fields deferred by default: field.deferred or listed in Meta.deferred_fields.
DefaultDeferred(e) ==
  {f \in FieldSet(e) : FieldDeferred(e, f) \/ f \in MetaDeferred(e)}

\* Variant of Override: a requested name is not taken out of "deferred".
OverrideNoForce(wasDeferred, include) ==
  IF include = FalseV THEN TRUE ELSE wasDeferred

\* One round of the override loop for one name: whether the name is in
\* "deferred" afterwards, given whether it was before and its directive.
Override(wasDeferred, include) ==
  IF include # FalseV /\ wasDeferred THEN FALSE
  ELSE IF include = FalseV THEN TRUE
  ELSE wasDeferred

\* "deferred" after the override loop ("if request_fields:" skips an empty map).
Deferred(e, req) ==
  {f \in FieldSet(e) :
     IF Truthy(req) /\ f \in Keys(req)
     THEN Override(f \in DefaultDeferred(e), Get(req, f))
     ELSE f \in DefaultDeferred(e)}

\* Variant of UnknownNames: only the names asked for are validated, the ones
\* given False are skipped.
UnknownIncluded(e, req) ==
  IF Truthy(req) THEN {k \in Keys(req) : Get(req, k) # FalseV} \ FieldSet(e)
  ELSE {}

\* The names the override loop rejects.
UnknownNames(e, req) == IF Truthy(req) THEN Keys(req) \ FieldSet(e) ELSE {}

\* serializer_fields after the deferred names are popped: declared order kept.
Resolved(e, req) ==
  IF IdOnly(req) THEN <<>>
  ELSE SelectSeq(Fields(e), LAMBDA f : f \notin Deferred(e, req))

SeqSet(s) == {s[i] : i \in 1..Len(s)}

\* Variant of InjectFor: the parent's whole request is handed down.
InjectParent(req, name) == req

\* Variant of InjectFor: a relation without directive gets the empty
\* sub-selection instead of True.
InjectDefaultEmpty(req, name) == DictGet(req, name, EmptyMap)

\* inject.request_fields = request_fields.get(name, True)
InjectFor(req, name) == DictGet(req, name, TrueV)

\* What get_fields injects into the sub-serializers of the resolved fields
\* (Absent for a name that gets no injection).
Injected(e, req) ==
  [f \in Names |->
     IF f \in SeqSet(Resolved(e, req)) /\ IsRelation(e, f)
     THEN InjectFor(req, f)
     ELSE Absent]

NoInject == [f \in Names |-> Absent]

\* The ParseError message: "'%s' is not a valid field name for '%s'".
ParseError(name, e) == [kind |-> "ParseError", field |-> name, entity |-> MetaName(e)]

Outcome(k) == [kind |-> k, field |-> "", entity |-> ""]

\* ------------------------------------------------------------------- state
Calls == {1, 2}

\* The names the include / exclude lists are drawn from: a deferred field, a
\* relation, and a name that is no field of person.
ListNames == {"email", "friend", "author"}

ListPool == {s \in SUBSET ListNames : Cardinality(s) <= MaxList}

\* context['include_fields'], context['exclude_fields'] when present
CtxIncPool == {{}, {"email"}}
CtxExcPool == {{}, {"name"}}

\* context['request_fields'] when present
CtxPool ==
  {EmptyMap} \cup
  {Put(EmptyMap, k, d) : k \in ListNames, d \in {TrueV, FalseV}}

\* <<request_fields argument, context['request_fields']>>: the context entry
\* is only read when the argument is None or empty.
CallArgs ==
  {<<a, Absent>> : a \in ReqSet \cup {TrueV, Absent}}
    \cup {<<a, c>> : a \in {Absent, EmptyMap}, c \in CtxPool}

\* <<list argument, list of the context>>: the context's list is only read
\* when the argument is None or empty.
ListArgs(ctxPool) ==
  {<<l, {}>> : l \in ListPool} \cup {<<{}, x>> : x \in ctxPool}

\* Two persons and a post.  p2's friend is p1, so that the graph has a cycle
\* whenever p1's friend is p2; p1's friend may be null and p1's posts empty.
DBs ==
  { [friend |-> [p1 |-> f, p2 |-> "p1"],
     posts  |-> [p1 |-> ps, p2 |-> <<>>],
     author |-> [q1 |-> "p1"]] :
    f \in {"null", "p2"}, ps \in {<<>>, <<"q1">>} }

NoRelations ==
  [friend |-> [p1 |-> "null", p2 |-> "p1"],
   posts  |-> [p1 |-> <<>>, p2 |-> <<>>],
   author |-> [q1 |-> "p1"]]

Roots == {"p1", "q1"}

\* The serializer class that serializes an instance.
EntityOf(i) == IF i \in {"p1", "p2"} THEN "person" ELSE "post"

\* instance.pk
Pk(i) == "pk:" \o i

\* The value of a plain field of an instance.
Val(i, f) == i \o "." \o f

VARIABLES
  argReq0,   \* the caller's request_fields argument as it was handed over
  ctxReq0,   \* the context's request_fields entry as it was handed over
  argObj,    \* the argument object now
  ctxObj,    \* the context's entry now
  ctxInc,    \* context['include_fields']
  ctxExc,    \* context['exclude_fields']
  incArg,    \* per call: the include_fields argument
  excArg,    \* per call: the exclude_fields argument
  root,      \* the instance the outermost serializer is constructed for
  pc,        \* per call: "idle", "new", "ready", "resolved", "running", "done", "failed"
  ref,       \* per call: the object self.request_fields refers to
  fresh,     \* per call: the dict made by _context.get('request_fields', {})
  include_fields, \* per call: self.include_fields
  exclude_fields, \* per call: self.exclude_fields
  fields,    \* per call: what get_fields returned
  inject,    \* per call: request_fields injected into the sub-serializers
  outcome,   \* per call: how the call ended
  db,        \* the instance graph
  stack,     \* the to_representation calls in progress, innermost first
  rep,       \* the representation built so far, as <<path, leaf>> pairs
  maxDepth   \* deepest nested to_representation call so far

callerVars == <<argReq0, ctxReq0, ctxInc, ctxExc, incArg, excArg, root, db>>
heapVars == <<argObj, ctxObj, fresh>>
selfVars == <<ref, include_fields, exclude_fields>>
walkVars == <<stack, rep, maxDepth>>
vars == <<callerVars, heapVars, selfVars, pc, fields, inject, outcome, walkVars>>

RootEntity == EntityOf(root)

\* self.request_fields of call c
Deref(c) ==
  IF ref[c] = "arg" THEN argObj
  ELSE IF ref[c] = "ctx" THEN ctxObj
  ELSE fresh[c]

\* ------------------------------------------------------------------- Init
InitCommon(args, roots) ==
  /\ \E a \in args :
       /\ argReq0 = a[1]
       /\ ctxReq0 = a[2]
       /\ argObj = a[1]
       /\ ctxObj = a[2]
  /\ root \in roots
  /\ ref = [c \in Calls |-> "fresh"]
  /\ fresh = [c \in Calls |-> EmptyMap]
  /\ include_fields = [c \in Calls |-> {}]
  /\ exclude_fields = [c \in Calls |-> {}]
  /\ fields = [c \in Calls |-> <<>>]
  /\ inject = [c \in Calls |-> NoInject]
  /\ outcome = [c \in Calls |-> Outcome("none")]
  /\ stack = <<>>
  /\ rep = {}
  /\ maxDepth = 0

OneCall == [c \in Calls |-> IF c = 1 THEN "new" ELSE "idle"]

\* One serializer is constructed and its fields are resolved.
Init ==
  /\ InitCommon(CallArgs, Roots)
  /\ \E i \in ListArgs(CtxIncPool), x \in ListArgs(CtxExcPool) :
       /\ incArg = [c \in Calls |-> IF c = 1 THEN i[1] ELSE {}]
       /\ ctxInc = i[2]
       /\ excArg = [c \in Calls |-> IF c = 1 THEN x[1] ELSE {}]
       /\ ctxExc = x[2]
  /\ db = NoRelations
  /\ pc = OneCall

\* ---------------------------------------------------------------- __init__
Construct(c) ==
  /\ pc[c] = "new"
  /\ LET r   == IF Truthy(argObj) THEN "arg"
                ELSE IF ctxObj # Absent THEN "ctx"
                ELSE "fresh"
         cur == IF r = "arg" THEN argObj
                ELSE IF r = "ctx" THEN ctxObj
                ELSE EmptyMap
         inc == OrList(incArg[c], ctxInc)
         exc == OrList(excArg[c], ctxExc)
         new == Merge(cur, inc, exc)
     IN  /\ ref' = [ref EXCEPT ![c] = r]
         /\ include_fields' = [include_fields EXCEPT ![c] = inc]
         /\ exclude_fields' = [exclude_fields EXCEPT ![c] = exc]
         /\ IF ~IsMap(cur) /\ inc \cup exc # {}
            THEN \* True[name] = ...: 'bool' object does not support item assignment
                 /\ pc' = [pc EXCEPT ![c] = "failed"]
                 /\ outcome' = [outcome EXCEPT ![c] = Outcome("TypeError")]
                 /\ UNCHANGED heapVars
            ELSE /\ pc' = [pc EXCEPT ![c] = "ready"]
                 /\ argObj' = IF r = "arg" THEN new ELSE argObj
                 /\ ctxObj' = IF r = "ctx" THEN new ELSE ctxObj
                 /\ fresh' = IF r = "fresh" THEN [fresh EXCEPT ![c] = new] ELSE fresh
                 /\ UNCHANGED outcome
  /\ UNCHANGED <<callerVars, fields, inject, walkVars>>

\* -------------------------------------------------------------- get_fields
GetFields(c) ==
  /\ pc[c] = "ready"
  /\ LET req == Deref(c)
         unk == IF IdOnly(req) THEN {} ELSE UnknownNames(RootEntity, req)
     IN  IF unk # {}
         THEN \E n \in unk :
                /\ pc' = [pc EXCEPT ![c] = "failed"]
                /\ outcome' = [outcome EXCEPT ![c] = ParseError(n, RootEntity)]
                /\ UNCHANGED <<fields, inject>>
         ELSE /\ pc' = [pc EXCEPT ![c] = "resolved"]
              /\ fields' = [fields EXCEPT ![c] = Resolved(RootEntity, req)]
              /\ inject' = [inject EXCEPT ![c] =
                              IF IdOnly(req) THEN NoInject
                              ELSE Injected(RootEntity, req)]
              /\ UNCHANGED outcome
  /\ UNCHANGED <<callerVars, heapVars, selfVars, walkVars>>

\* -------------------------------------------------------- to_representation
\* get_plural_name: Meta.plural_name when declared, else the name plus "s".
PluralDecl(e) == IF e = "person" THEN "people" ELSE ""

GetPluralName(e) ==
  IF PluralDecl(e) # "" THEN PluralDecl(e) ELSE MetaName(e) \o "s"

\* The key of the k-th member of a collection in a representation path.
Index(k) == "#" \o ToString(k)

\* The work one resolved field asks for: a plain value, one related instance
\* (or null), or a list and then each of its members in order.
Item(kind, f, target, path) ==
  [kind |-> kind, f |-> f, target |-> target, path |-> path]

ItemsOf(e, i, f) ==
  IF ~IsRelation(e, f) THEN <<Item("plain", f, "", <<f>>)>>
  ELSE IF IsMany(e, f)
  THEN <<Item("list", f, "", <<f>>)>> \o
       [k \in 1..Len(db.posts[i]) |->
          Item("one", f, db.posts[i][k], <<f, Index(k)>>)]
  ELSE <<Item("one", f, IF f = "friend" THEN db.friend[i] ELSE db.author[i], <<f>>)>>

RECURSIVE Items(_, _, _)
Items(e, i, flds) ==
  IF flds = <<>> THEN <<>>
  ELSE ItemsOf(e, i, Head(flds)) \o Items(e, i, Tail(flds))

\* One to_representation call in progress on a serializer that is not
\* identifier-only: its fields are resolved and its sub-serializers injected.
Frame(e, i, req, prefix, level) ==
  [entity |-> e, inst |-> i, prefix |-> prefix, level |-> level,
   todo |-> Items(e, i, Resolved(e, req)), inject |-> Injected(e, req)]

\* A guard against a walk that never ends; the walk never reaches it.
StackCap == MaxEntries + 3

Max(a, b) == IF a >= b THEN a ELSE b

\* to_representation of the outermost serializer.
ToRepresentation(c) ==
  /\ pc[c] = "resolved"
  /\ stack = <<>>
  /\ IF IdOnly(Deref(c))
     THEN /\ rep' = {<< <<>>, Pk(root) >>}
          /\ pc' = [pc EXCEPT ![c] = "done"]
          /\ outcome' = [outcome EXCEPT ![c] = Outcome("pk")]
          /\ UNCHANGED stack
     ELSE /\ stack' = <<[entity |-> RootEntity, inst |-> root, prefix |-> <<>>,
                         level |-> 0,
                         todo |-> Items(RootEntity, root, fields[c]),
                         inject |-> inject[c]]>>
          /\ pc' = [pc EXCEPT ![c] = "running"]
          /\ UNCHANGED <<rep, outcome>>
  /\ UNCHANGED <<callerVars, heapVars, selfVars, fields, inject, maxDepth>>

\* The innermost call with its first item taken off.
Advance == [stack EXCEPT ![1].todo = Tail(@)]

\* A plain field: its value is copied.
SerializePlain(c) ==
  /\ pc[c] = "running"
  /\ stack # <<>> /\ stack[1].todo # <<>>
  /\ LET fr == stack[1]
         it == Head(fr.todo)
     IN  /\ it.kind = "plain"
         /\ rep' = rep \cup {<<fr.prefix \o it.path, Val(fr.inst, it.f)>>}
         /\ stack' = Advance
  /\ UNCHANGED <<callerVars, heapVars, selfVars, pc, fields, inject, outcome, maxDepth>>

\* A collection relation: a list, whose members follow one by one.
SerializeList(c) ==
  /\ pc[c] = "running"
  /\ stack # <<>> /\ stack[1].todo # <<>>
  /\ LET fr == stack[1]
         it == Head(fr.todo)
     IN  /\ it.kind = "list"
         /\ rep' = rep \cup {<<fr.prefix \o it.path, "list">>}
         /\ stack' = Advance
  /\ UNCHANGED <<callerVars, heapVars, selfVars, pc, fields, inject, outcome, maxDepth>>

\* A related instance: null, or the sub-serializer's to_representation with
\* the request_fields the parent injected.
SerializeRelated(c) ==
  /\ pc[c] = "running"
  /\ stack # <<>> /\ stack[1].todo # <<>>
  /\ Len(stack) < StackCap
  /\ LET fr    == stack[1]
         it    == Head(fr.todo)
         child == RelTarget(fr.entity, it.f)
         req   == fr.inject[it.f]
         at    == fr.prefix \o it.path
         unk   == UnknownNames(child, req)
     IN  /\ it.kind = "one"
         /\ IF it.target = "null"
            THEN /\ rep' = rep \cup {<<at, "null">>}
                 /\ stack' = Advance
                 /\ UNCHANGED <<pc, outcome, maxDepth>>
            ELSE IF IdOnly(req)
            THEN /\ rep' = rep \cup {<<at, Pk(it.target)>>}
                 /\ stack' = Advance
                 /\ maxDepth' = Max(maxDepth, fr.level + 1)
                 /\ UNCHANGED <<pc, outcome>>
            ELSE IF unk # {}
            THEN \E n \in unk :
                   /\ outcome' = [outcome EXCEPT ![c] = ParseError(n, child)]
                   /\ pc' = [pc EXCEPT ![c] = "failed"]
                   /\ stack' = <<>>
                   /\ rep' = {}
                   /\ maxDepth' = Max(maxDepth, fr.level + 1)
            ELSE /\ stack' = <<Frame(child, it.target, req, at, fr.level + 1)>>
                              \o Advance
                 /\ maxDepth' = Max(maxDepth, fr.level + 1)
                 /\ UNCHANGED <<rep, pc, outcome>>
  /\ UNCHANGED <<callerVars, heapVars, selfVars, fields, inject>>

\* Every field is serialized: _name and _pk are stamped and the call returns.
Return(c) ==
  /\ pc[c] = "running"
  /\ stack # <<>> /\ stack[1].todo = <<>>
  /\ LET fr == stack[1]
     IN  rep' = rep \cup {<<fr.prefix \o <<"_name">>, GetPluralName(fr.entity)>>,
                          <<fr.prefix \o <<"_pk">>, Pk(fr.inst)>>}
  /\ stack' = Tail(stack)
  /\ IF Len(stack) = 1
     THEN /\ pc' = [pc EXCEPT ![c] = "done"]
          /\ outcome' = [outcome EXCEPT ![c] = Outcome("envelope")]
     ELSE UNCHANGED <<pc, outcome>>
  /\ UNCHANGED <<callerVars, heapVars, selfVars, fields, inject, maxDepth>>

\* ------------------------------------------------------------ specifications
\* Construction and field resolution of one serializer.
Next == \E c \in Calls : Construct(c) \/ GetFields(c)

Spec == Init /\ [][Next]_vars

\* One serialize call from construction to its result, over every instance
\* graph; the lists come from the arguments only.
\* <<include_fields, exclude_fields>>: no lists, or one name each.
WalkLists == {<<{}, {}>>, <<{"posts"}, {"name"}>>}

InitWalk ==
  /\ InitCommon(CallArgs, Roots)
  /\ \E l \in WalkLists :
       /\ incArg = [c \in Calls |-> IF c = 1 THEN l[1] ELSE {}]
       /\ excArg = [c \in Calls |-> IF c = 1 THEN l[2] ELSE {}]
  /\ ctxInc = {}
  /\ ctxExc = {}
  /\ db \in DBs
  /\ pc = OneCall

NextWalk ==
  \E c \in Calls :
    \/ Construct(c)
    \/ GetFields(c)
    \/ ToRepresentation(c)
    \/ SerializePlain(c)
    \/ SerializeList(c)
    \/ SerializeRelated(c)
    \/ Return(c)

SpecWalk == InitWalk /\ [][NextWalk]_vars

\* The walk is one synchronous call: it runs on once it has begun.
FairWalk == SpecWalk /\ WF_vars(NextWalk)

\* Two serializers constructed from the same arguments and context: the
\* request map is a flat map of one entry at most, handed over as the
\* argument or in the context.
SharedArgs ==
  {<<a, Absent>> : a \in CtxPool \cup {TrueV, Absent}}
    \cup {<<a, c>> : a \in {Absent, EmptyMap}, c \in CtxPool}

InitShared ==
  /\ InitCommon(SharedArgs, {"p1"})
  /\ incArg \in [Calls -> ListPool]
  /\ excArg \in [Calls -> ListPool]
  /\ ctxInc \in CtxIncPool
  /\ ctxExc \in CtxExcPool
  /\ db = NoRelations
  /\ pc = [c \in Calls |-> "new"]

SpecShared == InitShared /\ [][Next]_vars

\* ------------------------------------------------------------------ claims
\* The request the outermost call was given, before __init__ merged the lists:
\* the argument, or the context's entry when the argument is None or empty,
\* or a new empty map.
Given ==
  IF Truthy(argReq0) THEN argReq0
  ELSE IF ctxReq0 # Absent THEN ctxReq0
  ELSE EmptyMap

Returned(c) == SeqSet(fields[c])

\* C1 (as stated): a field named in the include list to which the request map
\* gives false is absent from the field set get_fields returns.
C1_ExplicitFalseWins ==
  \A f \in FieldSet(RootEntity) :
    (pc[1] = "resolved" /\ f \in include_fields[1] /\ Get(Given, f) = FalseV)
      => f \notin Returned(1)

\* C1 (amended): for a field named in the include list to which the request
\* map gives false, the include list wins and the field is returned, unless
\* the exclude list names it too, and then it is not returned.
C1_IncludeListWins ==
  \A f \in FieldSet(RootEntity) :
    (pc[1] = "resolved" /\ f \in include_fields[1] /\ Get(Given, f) = FalseV)
      => (f \in Returned(1) <=> f \notin exclude_fields[1])

C1_Witness ==
  /\ pc[1] = "resolved"
  /\ \E f \in FieldSet(RootEntity) :
       /\ f \in include_fields[1]
       /\ Get(Given, f) = FalseV
       /\ f \in Returned(1)

\* C2: after __init__ with a non-empty include or exclude list the caller's
\* request map (argument and context entry) is what it was before.
C2_CallerMapUnchanged ==
  (pc[1] \in {"ready", "resolved"} /\ include_fields[1] \cup exclude_fields[1] # {})
    => (argObj = argReq0 /\ ctxObj = ctxReq0)

\* The merged request of call c when it runs alone on the request both calls
\* were given.
Alone(c) ==
  IF Given = TrueV THEN Given
  ELSE SetAll(SetAll(Given, include_fields[c], TrueV), exclude_fields[c], FalseV)

\* The field set a merged request asks for.
Asked(e, req) ==
  IF req = TrueV THEN {}
  ELSE {f \in FieldSet(e) :
          \/ Kind(Get(req, f)) \in {"true", "map"}
          \/ f \notin Keys(req) /\ f \notin DefaultDeferred(e)}

\* C3: each of two calls on the same request map resolves exactly the field
\* set it would resolve alone, and fails only on a name it would reject alone.
C3_CallsIndependent ==
  \A c \in Calls :
    /\ pc[c] = "resolved" =>
         /\ Keys(Alone(c)) \subseteq FieldSet(RootEntity)
         /\ Returned(c) = Asked(RootEntity, Alone(c))
    /\ (pc[c] = "failed" /\ outcome[c].kind = "ParseError") =>
         outcome[c].field \in Keys(Alone(c)) \ FieldSet(RootEntity)

\* The serializer class a path of relation names leads to ("" when the path
\* leaves the relations).
RECURSIVE EntityAt(_, _)
EntityAt(e, path) ==
  IF path = <<>> THEN e
  ELSE IF e # "" /\ IsRelation(e, Head(path))
  THEN EntityAt(RelTarget(e, Head(path)), Tail(path))
  ELSE ""

\* A request names an unknown field at some nesting level.
NamesUnknown(e, req) ==
  \E x \in req :
    /\ Len(x[1]) > 0
    /\ LET owner == EntityAt(e, SubSeq(x[1], 1, Len(x[1]) - 1))
       IN  owner # "" /\ x[1][Len(x[1])] \notin FieldSet(owner)

\* C4: a serialize call whose request names an unknown field at any nesting
\* level fails with the unknown-field error: it never returns a result.
C4_NestedUnknownFails ==
  (pc[1] = "done" /\ Deref(1) # TrueV) => ~NamesUnknown(RootEntity, Deref(1))

\* Position of a name in a sequence that holds it.
Pos(s, f) == CHOOSE i \in 1..Len(s) : s[i] = f

\* C5: for a request that is not identifier-only and names only schema fields,
\* get_fields returns exactly the fields given true or a nested map, and the
\* fields without entry that are not deferred by default, in declared order.
C5_ResolvedFieldSet ==
  (pc[1] = "resolved" /\ Deref(1) # TrueV) =>
    LET req == Deref(1)
        e   == RootEntity
        out == fields[1]
    IN  /\ \A f \in FieldSet(e) :
             f \in SeqSet(out) <=>
               \/ Kind(Get(req, f)) \in {"true", "map"}
               \/ /\ f \notin Keys(req)
                  /\ ~FieldDeferred(e, f)
                  /\ f \notin MetaDeferred(e)
        /\ SeqSet(out) \subseteq FieldSet(e)
        /\ \A f \in SeqSet(out) : Get(req, f) # FalseV
        /\ \A i \in 1..Len(out) : \A j \in 1..Len(out) :
             i < j => Pos(Fields(e), out[i]) < Pos(Fields(e), out[j])

C5_Witness ==
  /\ pc[1] = "resolved"
  /\ root = "p1"
  /\ fields[1] = <<"email", "friend">>
  /\ Get(Deref(1), "name") = FalseV

\* C6: a serializer whose request_fields is True resolves no field and its
\* to_representation returns the bare primary key; any other serializer
\* returns an envelope carrying _name and _pk, never a bare primary key.
C6_IdOnly ==
  /\ (pc[1] \in {"resolved", "done"} /\ Deref(1) = TrueV) => fields[1] = <<>>
  /\ (pc[1] = "done" /\ Deref(1) = TrueV) =>
       (rep = {<< <<>>, Pk(root) >>} /\ outcome[1].kind = "pk")
  /\ (pc[1] = "done" /\ Deref(1) # TrueV) =>
       /\ outcome[1].kind = "envelope"
       /\ << <<"_pk">>, Pk(root) >> \in rep
       /\ << <<"_name">>, IF root = "p1" THEN "people" ELSE "posts" >> \in rep
       /\ \A x \in rep : x[1] # <<>>

C6_Witness ==
  /\ pc[1] = "done"
  /\ Deref(1) = TrueV
  /\ rep = {<< <<>>, Pk(root) >>}

\* C7: the request injected into the sub-serializer of a resolved relational
\* field is the nested map the parent's request gives for that field, and
\* True when the parent's directive is True or missing; it is never False.
C7_ChildRequest ==
  (pc[1] = "resolved" /\ Deref(1) # TrueV) =>
    \A f \in Returned(1) :
      IsRelation(RootEntity, f) =>
        LET d == Get(Deref(1), f)
        IN  /\ IsMap(d) => inject[1][f] = d
            /\ (d = TrueV \/ d = Absent) => inject[1][f] = TrueV
            /\ inject[1][f] # FalseV
            /\ inject[1][f] # Absent

C7_Witness ==
  /\ pc[1] = "resolved"
  /\ \E f \in Returned(1) :
       /\ IsRelation(RootEntity, f)
       /\ IsMap(inject[1][f])
       /\ Keys(inject[1][f]) # {}
       /\ Keys(Deref(1)) # {f}

\* C8: when the merged request of a serializer that is not identifier-only
\* holds a name that is no schema field, get_fields raises the error that
\* carries such a name and Meta.name, and returns no field set.
C8_UnknownRejected ==
  (pc[1] \in {"resolved", "failed"} /\ Deref(1) # TrueV) =>
    LET unk == Keys(Deref(1)) \ FieldSet(RootEntity)
    IN  unk # {} =>
          /\ pc[1] = "failed"
          /\ outcome[1].kind = "ParseError"
          /\ outcome[1].field \in unk
          /\ outcome[1].entity = (IF root = "p1" THEN "person" ELSE "post")
          /\ fields[1] = <<>>

C8_Witness ==
  /\ pc[1] = "failed"
  /\ outcome[1].kind = "ParseError"
  /\ outcome[1].field \in exclude_fields[1]
  /\ outcome[1].field \notin Keys(Given)

\* The part of a representation below a path.
Sub(r, p) ==
  {<<SubSeq(x[1], Len(p) + 1, Len(x[1])), x[2]>> :
     x \in {y \in r : Len(y[1]) >= Len(p) /\ SubSeq(y[1], 1, Len(p)) = p}}

\* An instance rendered with its serializer's own defaults: the fields not
\* deferred by default, each relation as the primary key(s) it leads to.
DefaultEnvelope(e, i) ==
  {<< <<"_name">>, GetPluralName(e) >>, << <<"_pk">>, Pk(i) >>}
    \cup UNION { {<<it.path, IF it.kind = "plain" THEN Val(i, it.f)
                             ELSE IF it.kind = "list" THEN "list"
                             ELSE IF it.target = "null" THEN "null"
                             ELSE Pk(it.target)>> :
                    it \in SeqSet(ItemsOf(e, i, f))}
                 : f \in FieldSet(e) \ DefaultDeferred(e) }

\* The related instances of the root behind its relation f that are not null,
\* each with the path of its value in the root's representation.
RelatedOf(f) ==
  {<<it.path, it.target>> :
     it \in {x \in SeqSet(ItemsOf(RootEntity, root, f)) :
               x.kind = "one" /\ x.target # "null"}}

\* C9 (as stated): the directive True on a relation renders the related
\* instance as the empty sub-selection does: with its serializer's defaults.
C9_TrueIsEmptySelection ==
  (pc[1] = "done" /\ Deref(1) # TrueV) =>
    \A f \in FieldSet(RootEntity) :
      (IsRelation(RootEntity, f) /\ Get(Deref(1), f) = TrueV) =>
        \A t \in RelatedOf(f) :
          Sub(rep, t[1]) = DefaultEnvelope(RelTarget(RootEntity, f), t[2])

\* C9 (amended): the directive True on a relation renders the related instance
\* as its bare primary key, whereas the empty sub-selection renders it as an
\* envelope with its serializer's defaults.
C9_TrueIsIdOnly ==
  (pc[1] = "done" /\ Deref(1) # TrueV) =>
    \A f \in FieldSet(RootEntity) :
      IsRelation(RootEntity, f) =>
        \A t \in RelatedOf(f) :
          /\ Get(Deref(1), f) = TrueV =>
               Sub(rep, t[1]) = {<< <<>>, Pk(t[2]) >>}
          /\ Get(Deref(1), f) = EmptyMap =>
               Sub(rep, t[1]) = DefaultEnvelope(RelTarget(RootEntity, f), t[2])

C9_Witness ==
  /\ pc[1] = "done"
  /\ root = "p1"
  /\ Get(Deref(1), "friend") = TrueV
  /\ Get(Deref(1), "posts") = EmptyMap
  /\ Sub(rep, <<"friend">>) = {<< <<>>, "pk:p2" >>}
  /\ << <<"posts", "#1", "_pk">>, "pk:q1" >> \in rep

\* C10: a serialize call ends, and its nested to_representation calls never
\* go deeper than the nesting depth of the request plus one.
C10_Terminates ==
  /\ [](maxDepth <= Depth(Deref(1)) + 1)
  /\ <>(pc[1] \in {"done", "failed"})

C10_Witness ==
  /\ pc[1] = "done"
  /\ db.friend["p1"] = "p2"
  /\ Depth(Deref(1)) = MaxEntries
  /\ maxDepth = MaxEntries + 1

====
